---- MODULE Spec2Model ----
(***************************************************************************)
(* A model of index.js, the IOU course video URL extractor: the lecture    *)
(* filter resolution, the bounded retry wrapper, the login / scan /        *)
(* per-page extraction / aggregation workflow, the HD-first quality        *)
(* selection and the ordering of the output groups.                        *)
(*                                                                         *)
(* A JavaScript string is modelled as a sequence of one-character strings, *)
(* so that splitting, trimming, regular-expression matching, number        *)
(* parsing and number formatting are computed character by character.      *)
(***************************************************************************)
EXTENDS Integers, Sequences, FiniteSets, TLC

VARIABLES
    pc,                 \* position of the main async function (or of a harness)
    inSpec,             \* how lecturesRaw was built: [kind, a, b] (ghost)
    lecturesRaw,        \* index.js:88
    lectureTitles,      \* index.js:125
    scanTitle,          \* the section last examined by the filter harness
    scanMatched,        \* matchesLecture for that section (index.js:213)
    r,                  \* the frame of the running retry call (index.js:28-36)
    rTrace,             \* what that call did so far: calls, failures, sleeps (ghost)
    rOutcome,           \* how that call ended: returned or thrown
    rRet,               \* where its caller continues: [ok, fail]
    browserLaunches,    \* puppeteer.launch calls completed
    browserCloses,      \* browser.close calls
    tabsOpen,           \* video tabs open now
    tabsOpened,         \* video tabs opened so far
    courseDom,          \* the sections of the course page
    lectureVideoPages,  \* index.js:196
    idx,                \* 1-based position of the for-of loop, 0 before it
    processed,          \* positions whose iteration has ended, in order (ghost)
    lectureToVideoUrls, \* index.js:252
    logs,               \* console lines, by kind
    outFile,            \* downloads/video-urls.txt: [written, lines]
    groups,             \* index.js:321
    anchorsIn,          \* the a.dropdown-item anchors of the page evaluated
    downloadUrl         \* index.js:273

filterVars == <<inSpec, lecturesRaw, lectureTitles, scanTitle, scanMatched>>
retryVars == <<r, rTrace, rOutcome, rRet>>
browserVars == <<browserLaunches, browserCloses, tabsOpen, tabsOpened>>
loopVars == <<courseDom, lectureVideoPages, idx, processed, lectureToVideoUrls>>
outVars == <<logs, outFile, groups>>
qualVars == <<anchorsIn, downloadUrl>>

vars == <<pc, filterVars, retryVars, browserVars, loopVars, outVars, qualVars>>

(***************************************************************************)
(* Bounds of the model.                                                    *)
(***************************************************************************)
MaxNum == 15
MaxRange == 5
MaxAttempts == 4
MaxAnchors == 3
MaxGroups == 3

(***************************************************************************)
(* Characters and strings.                                                 *)
(***************************************************************************)
DigitChars == <<"0", "1", "2", "3", "4", "5", "6", "7", "8", "9">>
UpperChars == <<"A", "B", "C", "D", "E", "F", "G", "H", "I", "J", "K", "L", "M",
                "N", "O", "P", "Q", "R", "S", "T", "U", "V", "W", "X", "Y", "Z">>
LowerChars == <<"a", "b", "c", "d", "e", "f", "g", "h", "i", "j", "k", "l", "m",
                "n", "o", "p", "q", "r", "s", "t", "u", "v", "w", "x", "y", "z">>

IndexOf(c, chars) ==
    IF \E i \in 1..Len(chars) : chars[i] = c
    THEN CHOOSE i \in 1..Len(chars) : chars[i] = c
    ELSE 0

IsDigit(c) == IndexOf(c, DigitChars) > 0
DigitVal(c) == IndexOf(c, DigitChars) - 1
IsSpace(c) == c \in {" ", "\t", "\n"}

ToLowerChar(c) ==
    IF IndexOf(c, UpperChars) > 0 THEN LowerChars[IndexOf(c, UpperChars)] ELSE c
ToLowerCase(s) == [i \in 1..Len(s) |-> ToLowerChar(s[i])]

Drop(s, n) == IF n >= Len(s) THEN <<>> ELSE SubSeq(s, n + 1, Len(s))
Take(s, n) == IF n <= 0 THEN <<>> ELSE SubSeq(s, 1, IF n > Len(s) THEN Len(s) ELSE n)

\* The number of leading characters of s that satisfy the class.
RECURSIVE DigitRun(_)
DigitRun(s) == IF s # <<>> /\ IsDigit(Head(s)) THEN 1 + DigitRun(Tail(s)) ELSE 0
RECURSIVE SpaceRun(_)
SpaceRun(s) == IF s # <<>> /\ IsSpace(Head(s)) THEN 1 + SpaceRun(Tail(s)) ELSE 0

RECURSIVE TrimStart(_)
TrimStart(s) == IF s # <<>> /\ IsSpace(Head(s)) THEN TrimStart(Tail(s)) ELSE s
RECURSIVE TrimEnd(_)
TrimEnd(s) ==
    IF s # <<>> /\ IsSpace(s[Len(s)]) THEN TrimEnd(SubSeq(s, 1, Len(s) - 1)) ELSE s
Trim(s) == TrimEnd(TrimStart(s))

StartsWith(s, p) == Len(p) <= Len(s) /\ SubSeq(s, 1, Len(p)) = p
\* String.prototype.includes
Includes(s, p) == \E i \in 0..(Len(s) - Len(p)) : SubSeq(s, i + 1, i + Len(p)) = p

\* String.prototype.split on a one-character separator
RECURSIVE SplitAcc(_, _, _)
SplitAcc(s, sep, cur) ==
    IF s = <<>> THEN <<cur>>
    ELSE IF Head(s) = sep THEN <<cur>> \o SplitAcc(Tail(s), sep, <<>>)
    ELSE SplitAcc(Tail(s), sep, Append(cur, Head(s)))
Split(s, sep) == SplitAcc(s, sep, <<>>)

\* Number(digits) for a string of decimal digits (leading zeros allowed)
RECURSIVE DigitsToNumberAcc(_, _)
DigitsToNumberAcc(s, acc) ==
    IF s = <<>> THEN acc ELSE DigitsToNumberAcc(Tail(s), acc * 10 + DigitVal(Head(s)))
DigitsToNumber(s) == DigitsToNumberAcc(s, 0)

\* `${n}` for a non-negative integer: decimal digits, no leading zeros
RECURSIVE NumberToString(_)
NumberToString(n) ==
    IF n < 10 THEN <<DigitChars[n + 1]>>
    ELSE Append(NumberToString(n \div 10), DigitChars[(n % 10) + 1])

LectureWord == <<"L", "e", "c", "t", "u", "r", "e", " ">>
\* `Lecture ${i}`
LectureN(i) == LectureWord \o NumberToString(i)

(***************************************************************************)
(* expandLectureSpecifiers (index.js:94-123)                               *)
(***************************************************************************)
\* part.match(/^(\d+)\s*-\s*(\d+)$/): the two captured digit strings, or none
RangeMatch(part) ==
    LET d1 == DigitRun(part)
        r1 == Drop(part, d1)
        r2 == Drop(r1, SpaceRun(r1))
        r3 == IF r2 # <<>> /\ Head(r2) = "-" THEN Tail(r2) ELSE <<>>
        r4 == Drop(r3, SpaceRun(r3))
        ok == /\ d1 >= 1
              /\ r2 # <<>> /\ Head(r2) = "-"
              /\ r4 # <<>> /\ DigitRun(r4) = Len(r4)
    IN  IF ok THEN [matched |-> TRUE, g1 |-> Take(part, d1), g2 |-> r4]
        ELSE [matched |-> FALSE, g1 |-> <<>>, g2 |-> <<>>]

\* part.match(/^(\d+)$/)
SingleMatch(part) == part # <<>> /\ DigitRun(part) = Len(part)

\* An expansion that does not swap reversed endpoints
ExpandRangeNoSwap(start, end) == [i \in 1..(end - start + 1) |-> LectureN(start + i - 1)]

ExpandRange(start, end) ==
    LET lo == IF start > end THEN end ELSE start
        hi == IF start > end THEN start ELSE end
    IN  [i \in 1..(hi - lo + 1) |-> LectureN(lo + i - 1)]

ExpandPart(part) ==
    LET rm == RangeMatch(part)
    IN  IF rm.matched THEN ExpandRange(DigitsToNumber(rm.g1), DigitsToNumber(rm.g2))
        ELSE IF SingleMatch(part) THEN <<LectureN(DigitsToNumber(part))>>
        ELSE <<part>>

\* .map((p) => p.trim()).filter(Boolean), then the loop body for each part
ExpandTrimmed(p) == IF p = <<>> THEN <<>> ELSE ExpandPart(p)

RECURSIVE ExpandParts(_)
ExpandParts(parts) ==
    IF parts = <<>> THEN <<>>
    ELSE ExpandTrimmed(Trim(Head(parts))) \o ExpandParts(Tail(parts))

expandLectureSpecifiers(spec) == ExpandParts(Split(spec, ","))

(***************************************************************************)
(* JSON.parse, as far as index.js:126-136 depends on it: does the text     *)
(* parse, and if so is the value an array.  The grammar covered is JSON    *)
(* numbers, the three literals, strings without escapes and arrays of      *)
(* such strings; the specifiers drawn below stay inside it.                *)
(***************************************************************************)
\* -?(0|[1-9]\d*)(\.\d+)?([eE][+-]?\d+)?
JsonIsNumber(t) ==
    LET a == IF t # <<>> /\ Head(t) = "-" THEN Tail(t) ELSE t
        n == DigitRun(a)
        intOk == n >= 1 /\ (Head(a) = "0" => n = 1)
        b == Drop(a, n)
        hasFrac == b # <<>> /\ Head(b) = "."
        fracN == IF hasFrac THEN DigitRun(Tail(b)) ELSE 0
        c == IF hasFrac THEN Drop(b, 1 + fracN) ELSE b
        hasExp == c # <<>> /\ Head(c) \in {"e", "E"}
        d == IF hasExp THEN Tail(c) ELSE c
        e == IF hasExp /\ d # <<>> /\ Head(d) \in {"+", "-"} THEN Tail(d) ELSE d
        expN == IF hasExp THEN DigitRun(e) ELSE 0
        rest == IF hasExp THEN Drop(e, expN) ELSE c
    IN  /\ intOk
        /\ hasFrac => fracN >= 1
        /\ hasExp => expN >= 1
        /\ rest = <<>>

JsonIsLiteral(t) ==
    t \in { <<"t", "r", "u", "e">>, <<"f", "a", "l", "s", "e">>, <<"n", "u", "l", "l">> }

JsonIsString(t) ==
    /\ Len(t) >= 2
    /\ t[1] = "\"" /\ t[Len(t)] = "\""
    /\ \A i \in 2..(Len(t) - 1) : t[i] \notin {"\"", "\\"}

JsonStringValue(t) == SubSeq(t, 2, Len(t) - 1)

JsonParse(raw) ==
    LET t == Trim(raw)
        inner == Trim(SubSeq(t, 2, Len(t) - 1))
        elems == [i \in 1..Len(Split(inner, ",")) |-> Trim(Split(inner, ",")[i])]
    IN  IF JsonIsNumber(t) \/ JsonIsLiteral(t) \/ JsonIsString(t)
        THEN [kind |-> "other", items |-> <<>>]
        ELSE IF Len(t) >= 2 /\ t[1] = "[" /\ t[Len(t)] = "]"
        THEN IF inner = <<>> THEN [kind |-> "array", items |-> <<>>]
             ELSE IF \A i \in 1..Len(elems) : JsonIsString(elems[i])
             THEN [kind |-> "array",
                   items |-> [i \in 1..Len(elems) |-> JsonStringValue(elems[i])]]
             ELSE [kind |-> "throw", items |-> <<>>]
        ELSE [kind |-> "throw", items |-> <<>>]

(***************************************************************************)
(* The resolution of lectureTitles (index.js:125-136).                     *)
(***************************************************************************)
ResolveLectureTitles(raw) ==
    LET parsed == JsonParse(raw)
    IN  IF parsed.kind = "array" THEN parsed.items
        ELSE IF parsed.kind = "other" THEN <<>>
        ELSE IF Len(Trim(raw)) > 0 THEN expandLectureSpecifiers(raw)
        ELSE <<>>

(***************************************************************************)
(* matchesLecture (index.js:197-218)                                       *)
(***************************************************************************)
normalize(s) == Trim(ToLowerCase(s))

TargetTitles(titles) ==
    SelectSeq([i \in 1..Len(titles) |-> normalize(titles[i])], LAMBDA t : Len(t) > 0)

LectureLower == <<"l", "e", "c", "t", "u", "r", "e">>

MatchesLecture(titles, sectionTitle) ==
    LET targetTitles == TargetTitles(titles)
        sectionTitleNorm == normalize(Trim(sectionTitle))
    IN  IF Len(targetTitles) > 0
        THEN \E i \in 1..Len(targetTitles) : Includes(sectionTitleNorm, targetTitles[i])
        ELSE Includes(sectionTitleNorm, LectureLower)

(***************************************************************************)
(* The scan of the course page (index.js:196-240).  A section is           *)
(* [title, items]; an item is [modtype, text, href], the anchor of one     *)
(* activity of the section.                                                *)
(***************************************************************************)
\* text.replace(/\s+/g, ' ')
RECURSIVE CollapseSpaces(_)
CollapseSpaces(s) ==
    IF s = <<>> THEN <<>>
    ELSE IF IsSpace(Head(s)) THEN <<" ">> \o CollapseSpaces(Drop(s, SpaceRun(s)))
    ELSE <<Head(s)>> \o CollapseSpaces(Tail(s))

VideoLower == <<"v", "i", "d", "e", "o">>
\* /video/i.test(text)
IsVideoTitle(text) == Includes(ToLowerCase(text), VideoLower)

\* The body of the loop over the page items of a section (index.js:227-236)
ItemRefs(sectionTitle, anchor) ==
    LET text == Trim(CollapseSpaces(anchor.text))
        keep == /\ anchor.modtype = "page"
                /\ anchor.href # ""
                /\ IsVideoTitle(text)
    IN  IF keep
        THEN <<[lecture |-> sectionTitle, itemTitle |-> text, href |-> anchor.href]>>
        ELSE <<>>

RECURSIVE SectionRefs(_, _)
SectionRefs(sectionTitle, items) ==
    IF items = <<>> THEN <<>>
    ELSE ItemRefs(sectionTitle, Head(items)) \o SectionRefs(sectionTitle, Tail(items))

\* The body of the loop over the sections (index.js:208-237)
SectionResult(titles, section) ==
    IF MatchesLecture(titles, Trim(section.title))
    THEN SectionRefs(Trim(section.title), section.items)
    ELSE <<>>

RECURSIVE ScanSections(_, _)
ScanSections(titles, sections) ==
    IF sections = <<>> THEN <<>>
    ELSE SectionResult(titles, Head(sections)) \o ScanSections(titles, Tail(sections))

(***************************************************************************)
(* Quality selection on a video page (index.js:273-291).  An anchor is     *)
(* [text, href]; href is the anchor's resolved URL, "" when it has none.   *)
(***************************************************************************)
textOf(a) == Trim(ToLowerCase(a.text))

\* /high\s*quality/
HighQuality(t) ==
    \E i \in 0..(Len(t) - 4) :
        /\ SubSeq(t, i + 1, i + 4) = <<"h", "i", "g", "h">>
        /\ LET rest == Drop(t, i + 4)
           IN  StartsWith(Drop(rest, SpaceRun(rest)), <<"q", "u", "a", "l", "i", "t", "y">>)

\* /hd|high\s*quality|720p|1080p/
IsHD(t) ==
    \/ Includes(t, <<"h", "d">>)
    \/ HighQuality(t)
    \/ Includes(t, <<"7", "2", "0", "p">>)
    \/ Includes(t, <<"1", "0", "8", "0", "p">>)

\* /sd|normal|240p|360p|480p/
IsSD(t) ==
    \/ Includes(t, <<"s", "d">>)
    \/ Includes(t, <<"n", "o", "r", "m", "a", "l">>)
    \/ Includes(t, <<"2", "4", "0", "p">>)
    \/ Includes(t, <<"3", "6", "0", "p">>)
    \/ Includes(t, <<"4", "8", "0", "p">>)

\* anchors.find(pred): the index of the first anchor satisfying it, 0 for undefined
FindHD(anchors) ==
    IF \E i \in 1..Len(anchors) : IsHD(textOf(anchors[i]))
    THEN CHOOSE i \in 1..Len(anchors) :
            /\ IsHD(textOf(anchors[i]))
            /\ \A j \in 1..(i - 1) : ~IsHD(textOf(anchors[j]))
    ELSE 0

FindSD(anchors) ==
    IF \E i \in 1..Len(anchors) : IsSD(textOf(anchors[i]))
    THEN CHOOSE i \in 1..Len(anchors) :
            /\ IsSD(textOf(anchors[i]))
            /\ \A j \in 1..(i - 1) : ~IsSD(textOf(anchors[j]))
    ELSE 0

NoLink == [isNull |-> TRUE, url |-> ""]
Link(u) == [isNull |-> FALSE, url |-> u]

\* A selection that prefers the SD anchor
PickLinkSDFirst(anchors, hd, sd) ==
    IF sd > 0 /\ anchors[sd].href # "" THEN [isNull |-> FALSE, url |-> anchors[sd].href]
    ELSE IF hd > 0 /\ anchors[hd].href # "" THEN [isNull |-> FALSE, url |-> anchors[hd].href]
    ELSE [isNull |-> TRUE, url |-> ""]

\* (hd && hd.href) || (sd && sd.href) || null
PickLink(anchors, hd, sd) ==
    IF hd > 0 /\ anchors[hd].href # "" THEN Link(anchors[hd].href)
    ELSE IF sd > 0 /\ anchors[sd].href # "" THEN Link(anchors[sd].href)
    ELSE NoLink

SelectDownloadUrl(anchors) ==
    IF Len(anchors) = 0 THEN NoLink
    ELSE PickLink(anchors, FindHD(anchors), FindSD(anchors))

(***************************************************************************)
(* The ordering of the output groups (index.js:313-331).                   *)
(***************************************************************************)
NaN == [finite |-> FALSE, val |-> 0]
Num(n) == [finite |-> TRUE, val |-> n]

\* title.match(/lecture\s*(\d+)/i): the captured digits of the leftmost match
KeywordAt(t, i) ==
    /\ SubSeq(t, i + 1, i + 7) = LectureLower
    /\ LET rest == Drop(t, i + 7)
       IN  DigitRun(Drop(rest, SpaceRun(rest))) >= 1

KeywordDigits(t, i) ==
    LET rest == Drop(t, i + 7)
        d == Drop(rest, SpaceRun(rest))
    IN  Take(d, DigitRun(d))

\* title.match(/(\d+)/): the first run of digits
RECURSIVE FirstDigits(_)
FirstDigits(s) ==
    IF s = <<>> THEN <<>>
    ELSE IF IsDigit(Head(s)) THEN Take(s, DigitRun(s))
    ELSE FirstDigits(Tail(s))

extractLectureNumber(title) ==
    LET t == ToLowerCase(title)
        hits == {i \in 0..(Len(t) - 7) : KeywordAt(t, i)}
    IN  IF hits # {}
        THEN Num(DigitsToNumber(KeywordDigits(t, CHOOSE i \in hits : \A j \in hits : i <= j)))
        ELSE IF FirstDigits(title) # <<>> THEN Num(DigitsToNumber(FirstDigits(title)))
        ELSE NaN

(***************************************************************************)
(* a.localeCompare(b) over the characters the titles use: the primary      *)
(* level orders white space, then punctuation, then digits, then letters   *)
(* without regard to case; among strings equal at that level a lower-case  *)
(* letter comes before its upper-case form.                                *)
(***************************************************************************)
CollationChars == <<" ", "-", ",", ":", ".">> \o DigitChars \o LowerChars

PrimaryKey(c) == IndexOf(ToLowerChar(c), CollationChars)
CaseKey(c) == IF IndexOf(c, UpperChars) > 0 THEN 1 ELSE 0

RECURSIVE CompareKeys(_, _)
CompareKeys(a, b) ==
    IF a = <<>> /\ b = <<>> THEN 0
    ELSE IF a = <<>> THEN -1
    ELSE IF b = <<>> THEN 1
    ELSE IF Head(a) < Head(b) THEN -1
    ELSE IF Head(a) > Head(b) THEN 1
    ELSE CompareKeys(Tail(a), Tail(b))

localeCompare(a, b) ==
    LET p == CompareKeys([i \in 1..Len(a) |-> PrimaryKey(a[i])],
                         [i \in 1..Len(b) |-> PrimaryKey(b[i])])
    IN  IF p # 0 THEN p
        ELSE CompareKeys([i \in 1..Len(a) |-> CaseKey(a[i])],
                         [i \in 1..Len(b) |-> CaseKey(b[i])])

\* A comparator that orders by title alone
GroupCompareLexical(a, b) == localeCompare(a.original, b.original)

\* The comparator of groups.sort: negative, zero or positive
GroupCompare(a, b) ==
    IF a.num.finite /\ b.num.finite /\ a.num.val # b.num.val THEN a.num.val - b.num.val
    ELSE IF a.num.finite /\ ~b.num.finite THEN -1
    ELSE IF ~a.num.finite /\ b.num.finite THEN 1
    ELSE localeCompare(a.original, b.original)

\* Array.prototype.sort is stable: an element goes after those it does not precede
RECURSIVE InsertGroup(_, _)
InsertGroup(sorted, g) ==
    IF sorted = <<>> THEN <<g>>
    ELSE IF GroupCompare(g, Head(sorted)) < 0 THEN <<g>> \o sorted
    ELSE <<Head(sorted)>> \o InsertGroup(Tail(sorted), g)

RECURSIVE SortGroups(_)
SortGroups(gs) ==
    IF gs = <<>> THEN <<>>
    ELSE InsertGroup(SortGroups(SubSeq(gs, 1, Len(gs) - 1)), gs[Len(gs)])

\* One group per key of lectureToVideoUrls, in insertion order (index.js:321-325)
MakeGroups(map) ==
    [i \in 1..Len(map) |->
        [num |-> extractLectureNumber(map[i].lecture),
         entries |-> map[i].entries,
         original |-> map[i].lecture]]

GroupHeader(g) == IF g.num.finite THEN LectureN(g.num.val) ELSE g.original

\* The lines of the output (index.js:333-341); a URL is an opaque string, a
\* header a string of characters
GroupLines(g) ==
    <<[kind |-> "header", text |-> GroupHeader(g), url |-> ""]>>
    \o [i \in 1..Len(g.entries) |-> [kind |-> "url", text |-> <<>>, url |-> g.entries[i].url]]
    \o <<[kind |-> "blank", text |-> <<>>, url |-> ""]>>

RECURSIVE OutputLines(_)
OutputLines(gs) ==
    IF gs = <<>> THEN <<>> ELSE GroupLines(Head(gs)) \o OutputLines(Tail(gs))

\* lectureToVideoUrls as a sequence of [lecture, entries] in insertion order
MapHas(map, lecture) == \E i \in 1..Len(map) : map[i].lecture = lecture

MapPush(map, lecture, entry) ==
    IF MapHas(map, lecture)
    THEN [i \in 1..Len(map) |->
            IF map[i].lecture = lecture
            THEN [map[i] EXCEPT !.entries = Append(@, entry)]
            ELSE map[i]]
    ELSE Append(map, [lecture |-> lecture, entries |-> <<entry>>])

(***************************************************************************)
(* retry (index.js:27-51).  The frame holds the locals of one call.  The   *)
(* function awaits at fn(i) and at sleep(delay); the actions below are the *)
(* stretches of code between those points.                                 *)
(***************************************************************************)
Errors == {"timeout", "net"}

NavAttempts == 3
NavInitialDelayMs == 1500
NavBackoffFactor == 2
RetryInitialDelayMs == 1000

RetryFrame(attempts, initialDelayMs, backoffFactor, onError) ==
    [attempts |-> attempts, initialDelayMs |-> initialDelayMs,
     backoffFactor |-> backoffFactor, onError |-> onError,
     i |-> 1, delay |-> initialDelayMs, lastError |-> "undefined"]

\* navigateWithRetries (index.js:53-76): every caller passes attempts: 3
NavFrame == RetryFrame(NavAttempts, NavInitialDelayMs, NavBackoffFactor, "logs")

IdleFrame == RetryFrame(0, 0, 0, "none")

Ev(ev, n, err) == [ev |-> ev, n |-> n, err |-> err]

NoOutcome == [kind |-> "none", err |-> ""]

\* for (let i = 1; i <= attempts; i++)
LoopContinues(frame) == frame.i <= frame.attempts

\* A retry that rethrows the error of the first failed attempt
ThrownFirstError(frame, trace) ==
    LET fails == SelectSeq(trace, LAMBDA e : e.ev = "fail")
    IN  IF fails = <<>> THEN frame.lastError ELSE fails[1].err

\* throw lastError
ThrownError(frame, trace) == frame.lastError

\* if (i < attempts) await sleep(delay)
SleepsAfterFailure(frame) == frame.i < frame.attempts

\* A backoff that adds the factor instead of multiplying by it
AdvanceFrameAdditive(frame) ==
    [frame EXCEPT !.delay = frame.delay + frame.backoffFactor, !.i = frame.i + 1]

\* delay *= backoffFactor, then i++
AdvanceFrame(frame) ==
    [frame EXCEPT !.delay = frame.delay * frame.backoffFactor, !.i = frame.i + 1]

\* try { onError(err, i) } catch (_) {}: an observer's own error goes no further
ObserverErrorEscapes(frame) == FALSE

\* The events of the catch block up to its await
CatchEvents(frame, err) ==
    <<Ev("fail", frame.i, err)>>
    \o (IF frame.onError # "none" THEN <<Ev("onError", frame.i, "")>> ELSE <<>>)
    \o (IF SleepsAfterFailure(frame) THEN <<Ev("sleep", frame.delay, "")>> ELSE <<>>)

RetryTop ==
    /\ pc = "retry_top"
    /\ IF LoopContinues(r)
       THEN /\ rTrace' = Append(rTrace, Ev("call", r.i, ""))
            /\ pc' = "retry_await_fn"
            /\ UNCHANGED rOutcome
       ELSE /\ rOutcome' = [kind |-> "thrown", err |-> ThrownError(r, rTrace)]
            /\ pc' = rRet.fail
            /\ UNCHANGED rTrace
    /\ UNCHANGED <<r, rRet, filterVars, browserVars, loopVars, outVars, qualVars>>

RetryFnResolves ==
    /\ pc = "retry_await_fn"
    /\ rTrace' = Append(rTrace, Ev("ok", r.i, ""))
    /\ rOutcome' = [kind |-> "returned", err |-> ""]
    /\ pc' = rRet.ok
    /\ UNCHANGED <<r, rRet, filterVars, browserVars, loopVars, outVars, qualVars>>

RetryFnRejects ==
    /\ pc = "retry_await_fn"
    /\ \E err \in Errors :
        LET caught == [r EXCEPT !.lastError = err]
        IN  IF r.onError = "throws" /\ ObserverErrorEscapes(r)
            THEN /\ rTrace' = rTrace \o <<Ev("fail", r.i, err), Ev("onError", r.i, "")>>
                 /\ r' = caught
                 /\ rOutcome' = [kind |-> "thrown", err |-> "observer_error"]
                 /\ pc' = rRet.fail
            ELSE /\ rTrace' = rTrace \o CatchEvents(r, err)
                 /\ UNCHANGED rOutcome
                 /\ IF SleepsAfterFailure(r)
                    THEN r' = caught /\ pc' = "retry_await_sleep"
                    ELSE r' = AdvanceFrame(caught) /\ pc' = "retry_top"
    /\ UNCHANGED <<rRet, filterVars, browserVars, loopVars, outVars, qualVars>>

RetrySleepDone ==
    /\ pc = "retry_await_sleep"
    /\ r' = AdvanceFrame(r)
    /\ pc' = "retry_top"
    /\ UNCHANGED <<rTrace, rOutcome, rRet, filterVars, browserVars, loopVars, outVars,
                   qualVars>>

RetrySteps == RetryTop \/ RetryFnResolves \/ RetryFnRejects \/ RetrySleepDone

\* A call of navigateWithRetries whose caller continues at ret.ok or ret.fail
CallNavigate(ret) ==
    /\ r' = NavFrame
    /\ rTrace' = <<>>
    /\ rOutcome' = NoOutcome
    /\ rRet' = ret
    /\ pc' = "retry_top"

(***************************************************************************)
(* The main async function (index.js:78-353).  The failures modelled are   *)
(* those of navigation, of the login form, of the evaluations in the page  *)
(* and of the tolerated waits and clicks; launching the browser and        *)
(* opening or closing a tab are taken to succeed.                          *)
(***************************************************************************)
Log(line) == logs' = Append(logs, line)

\* index.js:79-136
ResolveArgs ==
    /\ pc = "start"
    /\ lectureTitles' = ResolveLectureTitles(lecturesRaw)
    /\ pc' = "launch"
    /\ UNCHANGED <<inSpec, lecturesRaw, scanTitle, scanMatched, retryVars, browserVars,
                   loopVars, outVars, qualVars>>

\* index.js:138-149
Launch ==
    /\ pc = "launch"
    /\ browserLaunches' = browserLaunches + 1
    /\ pc' = "login_nav"
    /\ UNCHANGED <<browserCloses, tabsOpen, tabsOpened, filterVars, retryVars, loopVars,
                   outVars, qualVars>>

\* An error that nothing catches rejects the promise of main: the process ends
Uncaught == "crashed"

\* index.js:152-156
LoginNavigate ==
    /\ pc = "login_nav"
    /\ CallNavigate([ok |-> "login_form", fail |-> Uncaught])
    /\ UNCHANGED <<filterVars, browserVars, loopVars, outVars, qualVars>>

\* index.js:158-178: type, click, then the race, whose timeout is only warned about
LoginSubmit ==
    /\ pc = "login_form"
    /\ \/ \E timedOut \in BOOLEAN :
            /\ logs' = logs \o (IF timedOut THEN <<"warn_login_wait">> ELSE <<>>)
                            \o <<"login_successful">>
            /\ pc' = "course_nav"
       \/ /\ pc' = Uncaught
          /\ UNCHANGED logs
    /\ UNCHANGED <<outFile, groups, filterVars, retryVars, browserVars, loopVars, qualVars>>

\* index.js:181-185
CourseNavigate ==
    /\ pc = "course_nav"
    /\ CallNavigate([ok |-> "wait_sections", fail |-> Uncaught])
    /\ UNCHANGED <<filterVars, browserVars, loopVars, outVars, qualVars>>

\* index.js:186-240: the wait for the sections (tolerated) and the scan
Scan ==
    /\ pc = "wait_sections"
    /\ \/ /\ lectureVideoPages' = ScanSections(lectureTitles, courseDom)
          /\ Log("opened_course")
          /\ pc' = "after_scan"
       \/ /\ pc' = Uncaught
          /\ UNCHANGED <<lectureVideoPages, logs>>
    /\ UNCHANGED <<courseDom, idx, processed, lectureToVideoUrls, outFile, groups,
                   filterVars, retryVars, browserVars, qualVars>>

\* An early-exit test that forgets the length: an array is never falsy
NoPagesFoundTruthyOnly(pages) == FALSE

\* if (!lectureVideoPages || lectureVideoPages.length === 0)
NoPagesFound(pages) == Len(pages) = 0

\* An early exit that returns without closing the browser
EarlyExitLeavesOpen(n) == n

\* browser.close() on the early exit
EarlyExitCloses(n) == n + 1

\* index.js:242-246
EarlyExit ==
    /\ pc = "after_scan"
    /\ NoPagesFound(lectureVideoPages)
    /\ Log("no_matching")
    /\ browserCloses' = EarlyExitCloses(browserCloses)
    /\ pc' = "done"
    /\ UNCHANGED <<browserLaunches, tabsOpen, tabsOpened, outFile, groups, filterVars,
                   retryVars, loopVars, qualVars>>

\* index.js:248-252
EnterLoop ==
    /\ pc = "after_scan"
    /\ ~NoPagesFound(lectureVideoPages)
    /\ Log("found")
    /\ lectureToVideoUrls' = <<>>
    /\ idx' = 1
    /\ pc' = "loop_top"
    /\ UNCHANGED <<courseDom, lectureVideoPages, processed, outFile, groups, filterVars,
                   retryVars, browserVars, qualVars>>

\* A navigation outside the try block: its failure escapes the loop
VideoNavReturnUncaught == [ok |-> "video_reveal", fail |-> Uncaught]

\* The try block's navigation: its failure is caught at index.js:305
VideoNavReturn == [ok |-> "video_reveal", fail |-> "video_catch"]

\* index.js:254-263
OpenVideoPage ==
    /\ pc = "loop_top"
    /\ idx <= Len(lectureVideoPages)
    /\ tabsOpen' = tabsOpen + 1
    /\ tabsOpened' = tabsOpened + 1
    /\ CallNavigate(VideoNavReturn)
    /\ UNCHANGED <<browserLaunches, browserCloses, filterVars, loopVars, outVars, qualVars>>

\* index.js:266-271: the click and the wait may fail, which is ignored
RevealDropdown ==
    /\ pc = "video_reveal"
    /\ pc' = "video_evaluate"
    /\ UNCHANGED <<filterVars, retryVars, browserVars, loopVars, outVars, qualVars>>

\* The pages a video tab can show: lists of [text, href, q], q the quality the
\* text advertises (ghost)
HDText == <<"H", "D", " ", "H", "i", "g", "h", " ", "Q", "u", "a", "l", "i", "t", "y">>
SDText == <<"S", "D", " ", "N", "o", "r", "m", "a", "l">>
P720Text == <<"7", "2", "0", "p">>
P360Text == <<"3", "6", "0", "p">>
HighQText == <<" ", "h", "i", "g", "h", " ", " ", "q", "u", "a", "l", "i", "t", "y", " ">>
AudioText == <<"A", "u", "d", "i", "o", " ", "o", "n", "l", "y">>

Anchor(text, href, q) == [text |-> text, href |-> href, q |-> q]

AnchorPool ==
    { Anchor(HDText, "hd1", "hd"), Anchor(P720Text, "hd2", "hd"),
      Anchor(HighQText, "hd3", "hd"), Anchor(HDText, "", "hd"),
      Anchor(SDText, "sd1", "sd"), Anchor(P360Text, "sd2", "sd"),
      Anchor(SDText, "", "sd"), Anchor(AudioText, "au", "none") }

VideoDoms ==
    { <<>>,
      <<Anchor(SDText, "sd1", "sd"), Anchor(HDText, "hd1", "hd")>>,
      <<Anchor(SDText, "sd1", "sd")>>,
      <<Anchor(AudioText, "au", "none")>> }

\* index.js:273-304, and the catch of an evaluation that throws (index.js:305)
ExtractLink ==
    /\ pc = "video_evaluate"
    /\ \/ \E anchors \in VideoDoms :
            LET item == lectureVideoPages[idx]
                url == SelectDownloadUrl(anchors)
            IN  /\ anchorsIn' = anchors
                /\ downloadUrl' = url
                /\ IF ~url.isNull
                   THEN /\ lectureToVideoUrls' =
                              MapPush(lectureToVideoUrls, item.lecture,
                                      [title |-> item.itemTitle, url |-> url.url])
                        /\ Log("fetched")
                   ELSE /\ Log("warn_no_link")
                        /\ UNCHANGED lectureToVideoUrls
       \/ /\ Log("warn_failed")
          /\ UNCHANGED <<lectureToVideoUrls, qualVars>>
    /\ pc' = "video_finally"
    /\ UNCHANGED <<courseDom, lectureVideoPages, idx, processed, outFile, groups,
                   filterVars, retryVars, browserVars>>

\* index.js:305-306, reached when the navigation failed on every attempt
VideoCatch ==
    /\ pc = "video_catch"
    /\ Log("warn_failed")
    /\ pc' = "video_finally"
    /\ UNCHANGED <<outFile, groups, filterVars, retryVars, browserVars, loopVars, qualVars>>

\* A loop that never closes the video tab
TabsAfterFinallyLeak(n) == n

\* finally { await videoPage.close() }
TabsAfterFinally(n) == n - 1

\* index.js:307-310
VideoFinally ==
    /\ pc = "video_finally"
    /\ tabsOpen' = TabsAfterFinally(tabsOpen)
    /\ processed' = Append(processed, idx)
    /\ idx' = idx + 1
    /\ pc' = "loop_top"
    /\ UNCHANGED <<browserLaunches, browserCloses, tabsOpened, courseDom, lectureVideoPages,
                   lectureToVideoUrls, filterVars, retryVars, outVars, qualVars>>

\* index.js:312-352
WriteOutput ==
    /\ pc = "loop_top"
    /\ idx > Len(lectureVideoPages)
    /\ groups' = SortGroups(MakeGroups(lectureToVideoUrls))
    /\ outFile' = [written |-> TRUE, lines |-> OutputLines(groups')]
    /\ logs' = logs \o <<"output", "saved">>
    /\ browserCloses' = browserCloses + 1
    /\ pc' = "done"
    /\ UNCHANGED <<browserLaunches, tabsOpen, tabsOpened, filterVars, retryVars, loopVars,
                   qualVars>>

(***************************************************************************)
(* Inputs: the --lectures specifiers and the course pages the runs draw.   *)
(***************************************************************************)
SpecifierText(in) ==
    CASE in.kind = "single" -> NumberToString(in.a)
      [] in.kind = "padded" -> <<"0">> \o NumberToString(in.a)
      [] in.kind = "range" -> NumberToString(in.a) \o <<"-">> \o NumberToString(in.b)
      [] in.kind = "spaced" -> NumberToString(in.a) \o <<" ", "-", " ">> \o NumberToString(in.b)
      [] in.kind = "list" -> NumberToString(in.a) \o <<",", " ">> \o NumberToString(in.b)
      [] in.kind = "json" -> <<"[", "\"">> \o LectureN(in.a) \o <<"\"", ",", "\"">>
                                \o LectureN(in.b) \o <<"\"", "]">>
      [] in.kind = "title" -> LectureN(in.a)
      [] in.kind = "word" -> <<"[", "\"", "S", "e", "s", "s", "i", "o", "n", "\"", "]">>
      [] in.kind = "blank" -> <<" ">>
      [] OTHER -> <<"[", "]">>

In(kind, a, b) == [kind |-> kind, a |-> a, b |-> b]

DefaultIn == In("default", 0, 0)

FilterInputs ==
    {In("single", a, 0) : a \in 0..MaxNum}
    \cup {In(k, a, b) : k \in {"range", "spaced", "list", "json"}, a \in 0..MaxRange,
                        b \in 0..MaxRange}
    \cup {In(k, a, 0) : k \in {"padded", "title"}, a \in 0..MaxRange}
    \cup {In("blank", 0, 0), In("word", 0, 0), DefaultIn}

GeneralTitle == <<"G", "e", "n", "e", "r", "a", "l">>
SessionTitle == <<"S", "e", "s", "s", "i", "o", "n", " ", "X">>
BasicsSuffix == <<":", " ", "B", "a", "s", "i", "c", "s">>
VideoA == <<"V", "i", "d", "e", "o", " ", "\n", " ", "A">>
VideoB == <<" ", "v", "i", "d", "e", "o", " ", "B">>
LectureVideo == <<"L", "e", "c", "t", "u", "r", "e", " ", "V", "I", "D", "E", "O">>
Notes == <<"N", "o", "t", "e", "s">>

Item(modtype, text, href) == [modtype |-> modtype, text |-> text, href |-> href]
Section(title, items) == [title |-> title, items |-> items]

CourseDoms ==
    { << Section(GeneralTitle, <<Item("page", VideoA, "g1")>>),
         Section(<<" ">> \o LectureN(10) \o <<" ">>,
                 <<Item("page", VideoA, "p1"), Item("quiz", VideoB, "q1"),
                   Item("page", Notes, "n1"), Item("page", VideoB, "p2")>>),
         Section(LectureN(2) \o BasicsSuffix,
                 <<Item("page", LectureVideo, "p3"), Item("page", VideoA, "")>>) >>,
      << Section(GeneralTitle, <<Item("page", VideoA, "g1")>>),
         Section(SessionTitle, <<Item("page", VideoB, "s1")>>) >>,
      << Section(LectureN(1), <<Item("page", Notes, "n1"), Item("forum", VideoA, "f1")>>) >> }

MainInputs == {DefaultIn, In("single", 1, 0), In("range", 2, 1), In("word", 0, 0)}

(***************************************************************************)
(* The run of the program.                                                 *)
(***************************************************************************)
NoSection == [n |-> -1, title |-> <<>>]

FilterIdle ==
    /\ inSpec = DefaultIn
    /\ lecturesRaw = <<>>
    /\ lectureTitles = <<>>
    /\ scanTitle = NoSection
    /\ scanMatched = FALSE

RetryIdle ==
    /\ r = IdleFrame
    /\ rTrace = <<>>
    /\ rOutcome = NoOutcome
    /\ rRet = [ok |-> "done", fail |-> "done"]

BrowserIdle ==
    /\ browserLaunches = 0
    /\ browserCloses = 0
    /\ tabsOpen = 0
    /\ tabsOpened = 0

LoopIdle ==
    /\ courseDom = <<>>
    /\ lectureVideoPages = <<>>
    /\ idx = 0
    /\ processed = <<>>
    /\ lectureToVideoUrls = <<>>

OutIdle ==
    /\ logs = <<>>
    /\ outFile = [written |-> FALSE, lines |-> <<>>]
    /\ groups = <<>>

QualIdle ==
    /\ anchorsIn = <<>>
    /\ downloadUrl = NoLink

Init ==
    /\ pc = "start"
    /\ inSpec \in MainInputs
    /\ lecturesRaw = SpecifierText(inSpec)
    /\ lectureTitles = <<>>
    /\ scanTitle = NoSection
    /\ scanMatched = FALSE
    /\ courseDom \in CourseDoms
    /\ lectureVideoPages = <<>>
    /\ idx = 0
    /\ processed = <<>>
    /\ lectureToVideoUrls = <<>>
    /\ RetryIdle /\ BrowserIdle /\ OutIdle /\ QualIdle

Next ==
    \/ ResolveArgs
    \/ Launch
    \/ LoginNavigate
    \/ LoginSubmit
    \/ CourseNavigate
    \/ Scan
    \/ EarlyExit
    \/ EnterLoop
    \/ OpenVideoPage
    \/ RevealDropdown
    \/ ExtractLink
    \/ VideoCatch
    \/ VideoFinally
    \/ WriteOutput
    \/ RetrySteps

Spec == Init /\ [][Next]_vars

\* The steps of the per-page loop.  Every await in it settles: navigations and
\* selector waits are bounded by timeouts, sleeps by their delay
LoopSteps ==
    \/ OpenVideoPage
    \/ RevealDropdown
    \/ ExtractLink
    \/ VideoCatch
    \/ VideoFinally
    \/ RetrySteps

FairSpec == Spec /\ WF_vars(LoopSteps)

(***************************************************************************)
(* retry on its own, for every combination of options.                     *)
(***************************************************************************)
InitRetry ==
    /\ pc = "retry_top"
    /\ \E attempts \in 0..MaxAttempts, d \in {RetryInitialDelayMs, NavInitialDelayMs},
          f \in {1, 2, 3}, o \in {"none", "logs", "throws"} :
            r = RetryFrame(attempts, d, f, o)
    /\ rTrace = <<>>
    /\ rOutcome = NoOutcome
    /\ rRet = [ok |-> "retry_returned", fail |-> "retry_threw"]
    /\ FilterIdle /\ BrowserIdle /\ LoopIdle /\ OutIdle /\ QualIdle

NextRetry == RetryTop \/ RetryFnResolves \/ RetryFnRejects \/ RetrySleepDone

SpecRetry == InitRetry /\ [][NextRetry]_vars

(***************************************************************************)
(* The lecture filter on its own: resolve a specifier, then test sections. *)
(***************************************************************************)
FilterSections ==
    {[n |-> n, title |-> LectureN(n)] : n \in 0..MaxNum}
    \cup {[n |-> n, title |-> LectureN(n) \o BasicsSuffix] : n \in 0..MaxRange}
    \cup {[n |-> -1, title |-> GeneralTitle], [n |-> -1, title |-> SessionTitle]}

InitFilter ==
    /\ pc = "filter_start"
    /\ inSpec \in FilterInputs
    /\ lecturesRaw = SpecifierText(inSpec)
    /\ lectureTitles = <<>>
    /\ scanTitle = NoSection
    /\ scanMatched = FALSE
    /\ RetryIdle /\ BrowserIdle /\ LoopIdle /\ OutIdle /\ QualIdle

FilterResolve ==
    /\ pc = "filter_start"
    /\ lectureTitles' = ResolveLectureTitles(lecturesRaw)
    /\ pc' = "filter_scan"
    /\ UNCHANGED <<inSpec, lecturesRaw, scanTitle, scanMatched, retryVars, browserVars,
                   loopVars, outVars, qualVars>>

FilterScanSection ==
    /\ pc = "filter_scan"
    /\ \E section \in FilterSections :
        /\ scanTitle' = section
        /\ scanMatched' = MatchesLecture(lectureTitles, Trim(section.title))
    /\ pc' = "filter_scanned"
    /\ UNCHANGED <<inSpec, lecturesRaw, lectureTitles, retryVars, browserVars, loopVars,
                   outVars, qualVars>>

NextFilter == FilterResolve \/ FilterScanSection

SpecFilter == InitFilter /\ [][NextFilter]_vars

(***************************************************************************)
(* Quality selection on its own, for every short list of anchors.          *)
(***************************************************************************)
SeqsUpTo(S, n) == UNION {[1..k -> S] : k \in 0..n}

InitQuality ==
    /\ pc = "quality_start"
    /\ anchorsIn \in SeqsUpTo(AnchorPool, MaxAnchors)
    /\ downloadUrl = NoLink
    /\ FilterIdle /\ RetryIdle /\ BrowserIdle /\ LoopIdle /\ OutIdle

EvaluateQuality ==
    /\ pc = "quality_start"
    /\ downloadUrl' = SelectDownloadUrl(anchorsIn)
    /\ pc' = "quality_done"
    /\ UNCHANGED <<anchorsIn, filterVars, retryVars, browserVars, loopVars, outVars>>

NextQuality == EvaluateQuality

SpecQuality == InitQuality /\ [][NextQuality]_vars

(***************************************************************************)
(* The ordering of the groups on its own, for every short aggregation map. *)
(***************************************************************************)
Lecture2Tight == <<"l", "e", "c", "t", "u", "r", "e", "2">>
Week3 == <<"W", "e", "e", "k", " ", "3">>
Week12Lecture1 == <<"W", "e", "e", "k", " ", "1", "2", " ">> \o LectureN(1)
Intro == <<"I", "n", "t", "r", "o">>

TitlePool ==
    {LectureN(10), LectureN(2), SessionTitle, Lecture2Tight, Week3, Week12Lecture1, Intro}

SortInputs ==
    {m \in SeqsUpTo(TitlePool, MaxGroups) :
        \A i, j \in 1..Len(m) : i # j => m[i] # m[j]}

InitSort ==
    /\ pc = "sort_start"
    /\ \E m \in SortInputs :
        lectureToVideoUrls =
            [i \in 1..Len(m) |-> [lecture |-> m[i],
                                  entries |-> <<[title |-> VideoA, url |-> "u"]>>]]
    /\ courseDom = <<>>
    /\ lectureVideoPages = <<>>
    /\ idx = 0
    /\ processed = <<>>
    /\ FilterIdle /\ RetryIdle /\ BrowserIdle /\ OutIdle /\ QualIdle

SortOutput ==
    /\ pc = "sort_start"
    /\ groups' = SortGroups(MakeGroups(lectureToVideoUrls))
    /\ outFile' = [written |-> TRUE, lines |-> OutputLines(groups')]
    /\ pc' = "sort_done"
    /\ UNCHANGED <<logs, filterVars, retryVars, browserVars, loopVars, qualVars>>

NextSort == SortOutput

SpecSort == InitSort /\ [][NextSort]_vars

(***************************************************************************)
(* Properties.                                                             *)
(***************************************************************************)
Has(seq, x) == \E i \in 1..Len(seq) : seq[i] = x
Only(trace, ev) == SelectSeq(trace, LAMBDA e : e.ev = ev)
CountBefore(trace, p, ev) == Cardinality({q \in 1..(p - 1) : trace[q].ev = ev})

RECURSIVE Pow(_, _)
Pow(b, e) == IF e = 0 THEN 1 ELSE b * Pow(b, e - 1)

RetryPcs == {"retry_top", "retry_await_fn", "retry_await_sleep"}
VideoPcs == RetryPcs \cup {"video_reveal", "video_evaluate", "video_catch", "video_finally"}

\* The state of the per-page loop: no error has escaped it, and the pages
\* before the current one have been processed once each, in scan order
C1_LoopState ==
    /\ idx >= 1 => pc # "crashed"
    /\ processed = [i \in 1..Len(processed) |-> i]
    /\ idx >= 1 => Len(processed) = idx - 1
    /\ Len(processed) <= Len(lectureVideoPages)
    /\ outFile.written => Len(processed) = Len(lectureVideoPages)
    /\ (pc = "done" /\ idx >= 1) => outFile.written

\* C1: a failure while one video page is processed (navigation failing on
\* every attempt, evaluation throwing, no link found) never aborts the batch:
\* once the loop is entered no error escapes, the pages are processed once
\* each in scan order, and the run goes on to write the output.
C1_BatchNeverAborted ==
    /\ []C1_LoopState
    /\ (idx >= 1) ~> (idx > Len(lectureVideoPages) /\ pc \in {"loop_top", "done"})

C1_Witness ==
    /\ pc = "done"
    /\ outFile.written
    /\ Len(processed) >= 2
    /\ \E i, j \in 1..Len(logs) : i < j /\ logs[i] = "warn_failed" /\ logs[j] = "fetched"
    /\ Has(logs, "warn_no_link")

\* C2: retry invokes fn at most `attempts` times, with indices 1, 2, ... in
\* order; it returns on the first success and invokes nothing after it; when
\* every attempt fails it throws the error of the last attempt, whatever the
\* onError observer does.
C2_RetryContract ==
    LET calls == Only(rTrace, "call")
        fails == Only(rTrace, "fail")
    IN  /\ Len(calls) <= r.attempts
        /\ \A j \in 1..Len(calls) : calls[j].n = j
        /\ \A p \in 1..Len(rTrace) :
              rTrace[p].ev = "ok" =>
                  /\ p = Len(rTrace)
                  /\ rOutcome.kind = "returned"
                  /\ Len(fails) = Len(calls) - 1
        /\ rOutcome.kind = "returned" =>
              /\ pc = "retry_returned"
              /\ rTrace # <<>> /\ rTrace[Len(rTrace)].ev = "ok"
        /\ rOutcome.kind = "thrown" =>
              /\ pc = "retry_threw"
              /\ Len(calls) = r.attempts
              /\ Len(fails) = r.attempts
              /\ rOutcome.err = IF fails = <<>> THEN "undefined" ELSE fails[Len(fails)].err
        /\ pc \in {"retry_returned", "retry_threw"} => rOutcome.kind # "none"

C2_Witness ==
    LET fails == Only(rTrace, "fail")
    IN  /\ rOutcome.kind = "thrown"
        /\ r.onError = "throws"
        /\ Len(fails) >= 2
        /\ fails[1].err # fails[Len(fails)].err

\* C3 as claimed: the browser is closed exactly once on every path by which
\* the process ends, paths on which an error escapes included.
C3_ClosedOnEveryPath ==
    pc \in {"done", "crashed"} => (browserLaunches = 1 /\ browserCloses = 1)

\* C3: the browser is launched once and closed exactly once on the two paths
\* by which main returns (after writing the output, and the early exit when
\* no video page is found), and never before; when an error escapes, the
\* process ends without browser.close having been called.
C3_ClosedWhenMainReturns ==
    /\ browserLaunches <= 1
    /\ pc \notin {"start", "launch"} => browserLaunches = 1
    /\ pc = "done" => browserCloses = 1
    /\ pc # "done" => browserCloses = 0

C3_Witness ==
    /\ pc = "done"
    /\ Has(logs, "no_matching")
    /\ browserLaunches = 1
    /\ browserCloses = 1

\* C4: a video tab is opened before the navigation and closed when the
\* processing of its page ends, however it ends: at most one tab is open,
\* exactly while a page is processed, and none when the loop is over.
C4_TabScoped ==
    /\ tabsOpen \in {0, 1}
    /\ tabsOpen = 1 <=> (idx >= 1 /\ pc \in VideoPcs)
    /\ tabsOpened = Len(processed) + tabsOpen
    /\ pc \in {"loop_top", "done", "crashed"} => tabsOpen = 0

C4_Witness ==
    /\ pc = "loop_top"
    /\ idx > Len(lectureVideoPages)
    /\ tabsOpened >= 2
    /\ tabsOpen = 0
    /\ Has(logs, "warn_failed")
    /\ Has(logs, "warn_no_link")
    /\ Has(logs, "fetched")

\* C5 as claimed: a single number N resolves to the filter ["Lecture N"] and
\* selects a section only if the section's lecture number is N.
C5_NumericSelectionExact ==
    (pc # "filter_start" /\ inSpec.kind = "single") =>
        /\ lectureTitles = <<LectureN(inSpec.a)>>
        /\ (pc = "filter_scanned" /\ scanMatched) => scanTitle.n = inSpec.a

FirstOf(anchors, q) ==
    IF \E i \in 1..Len(anchors) : anchors[i].q = q
    THEN CHOOSE i \in 1..Len(anchors) :
            anchors[i].q = q /\ \A j \in 1..(i - 1) : anchors[j].q # q
    ELSE 0

\* C7 as claimed: the URL of the first HD anchor if there is one, else the URL
\* of the first SD anchor if there is one, else no link.
C7_FirstHDElseFirstSD ==
    pc = "quality_done" =>
        LET hd == FirstOf(anchorsIn, "hd")
            sd == FirstOf(anchorsIn, "sd")
        IN  downloadUrl = IF hd > 0 THEN Link(anchorsIn[hd].href)
                          ELSE IF sd > 0 THEN Link(anchorsIn[sd].href)
                          ELSE NoLink

\* C7: the URL of the first HD anchor if that anchor has a URL, wherever the
\* SD anchors are; otherwise the URL of the first SD anchor if that anchor has
\* one; otherwise (no anchor of either quality included) no link.
C7_FirstHDWithUrlElseFirstSD ==
    pc = "quality_done" =>
        LET hd == FirstOf(anchorsIn, "hd")
            sd == FirstOf(anchorsIn, "sd")
        IN  /\ downloadUrl = IF hd > 0 /\ anchorsIn[hd].href # "" THEN Link(anchorsIn[hd].href)
                             ELSE IF sd > 0 /\ anchorsIn[sd].href # ""
                             THEN Link(anchorsIn[sd].href)
                             ELSE NoLink
            /\ downloadUrl.isNull <=> downloadUrl.url = ""
            /\ (hd = 0 /\ sd = 0) => downloadUrl = NoLink

C7_Witness ==
    /\ pc = "quality_done"
    /\ Len(anchorsIn) = 3
    /\ anchorsIn[1].q = "sd" /\ anchorsIn[1].href # ""
    /\ anchorsIn[2].q = "hd" /\ anchorsIn[2].href = "hd1"
    /\ anchorsIn[3].q = "hd" /\ anchorsIn[3].href = "hd2"
    /\ downloadUrl = Link("hd1")

\* The lecture number a reader takes from each title of the pool, -1 for none
TitleNumber(title) ==
    CASE title = LectureN(10) -> 10
      [] title = LectureN(2) -> 2
      [] title = Lecture2Tight -> 2
      [] title = Week3 -> 3
      [] title = Week12Lecture1 -> 1
      [] OTHER -> -1

Originals(gs) == [i \in 1..Len(gs) |-> gs[i].original]

\* C8: the groups are the keys of the map, in ascending order of lecture
\* number, those without a number after all the numbered ones, equal numbers
\* (or no numbers) in the order of localeCompare on the titles; "Lecture 10",
\* "Lecture 2", "Session X" come out as Lecture 2, Lecture 10, Session X.
C8_GroupOrder ==
    pc = "sort_done" =>
        /\ Len(groups) = Len(lectureToVideoUrls)
        /\ {groups[i].original : i \in 1..Len(groups)}
              = {lectureToVideoUrls[i].lecture : i \in 1..Len(lectureToVideoUrls)}
        /\ \A i, j \in 1..Len(groups) :
              i < j =>
                  LET a == TitleNumber(groups[i].original)
                      b == TitleNumber(groups[j].original)
                  IN  /\ (a >= 0 /\ b >= 0) => a <= b
                      /\ a < 0 => b < 0
                      /\ a = b => localeCompare(groups[i].original, groups[j].original) <= 0
        /\ {lectureToVideoUrls[i].lecture : i \in 1..Len(lectureToVideoUrls)}
              = {LectureN(10), LectureN(2), SessionTitle}
           => Originals(groups) = <<LectureN(2), LectureN(10), SessionTitle>>

C8_Witness ==
    /\ pc = "sort_done"
    /\ [i \in 1..Len(lectureToVideoUrls) |-> lectureToVideoUrls[i].lecture]
          = <<LectureN(10), SessionTitle, LectureN(2)>>
    /\ Originals(groups) = <<LectureN(2), LectureN(10), SessionTitle>>

\* C9: "a-b" resolves to "Lecture min(a,b)", ..., "Lecture max(a,b)", every
\* number of the inclusive range once, ascending, so that "a-b" and "b-a"
\* give the same filter; "1-3" gives Lecture 1, Lecture 2, Lecture 3.
C9_RangeNormalized ==
    (pc # "filter_start" /\ inSpec.kind \in {"range", "spaced"}) =>
        LET lo == IF inSpec.a < inSpec.b THEN inSpec.a ELSE inSpec.b
            hi == IF inSpec.a < inSpec.b THEN inSpec.b ELSE inSpec.a
        IN  /\ Len(lectureTitles) = hi - lo + 1
            /\ \A i \in 1..Len(lectureTitles) :
                  /\ StartsWith(lectureTitles[i], LectureWord)
                  /\ DigitsToNumber(Drop(lectureTitles[i], 8)) = lo + i - 1
                  /\ lectureTitles[i] = LectureWord \o NumberToString(lo + i - 1)
            /\ lectureTitles = ResolveLectureTitles(SpecifierText(In("range", inSpec.b, inSpec.a)))
            /\ (lo = 1 /\ hi = 3) =>
                  lectureTitles = << <<"L", "e", "c", "t", "u", "r", "e", " ", "1">>,
                                     <<"L", "e", "c", "t", "u", "r", "e", " ", "2">>,
                                     <<"L", "e", "c", "t", "u", "r", "e", " ", "3">> >>

C9_Witness ==
    /\ pc = "filter_scan"
    /\ inSpec = In("range", 3, 1)
    /\ Len(lectureTitles) = 3
    /\ lectureTitles[1] = <<"L", "e", "c", "t", "u", "r", "e", " ", "1">>

\* C10: retry sleeps only between a failed attempt and the next one, never
\* after the last failed attempt nor after a success; the sleep before
\* attempt k lasts initialDelay * backoffFactor^(k-2); navigateWithRetries
\* (3 attempts, 1500 ms, factor 2) failing throughout sleeps 1500 then 3000.
C10_BackoffSchedule ==
    LET sleeps == Only(rTrace, "sleep")
        fails == Only(rTrace, "fail")
    IN  /\ \A p \in 1..Len(rTrace) :
              rTrace[p].ev = "sleep" =>
                  LET failed == CountBefore(rTrace, p, "call")
                      prev == IF rTrace[p - 1].ev = "onError" THEN p - 2 ELSE p - 1
                  IN  /\ failed < r.attempts
                      /\ rTrace[prev] = Ev("fail", failed, rTrace[prev].err)
                      /\ rTrace[p].n = r.initialDelayMs * Pow(r.backoffFactor, failed - 1)
                      /\ p < Len(rTrace) => rTrace[p + 1] = Ev("call", failed + 1, "")
                      /\ p = Len(rTrace) =>
                            \/ pc = "retry_await_sleep" /\ r.i = failed
                            \/ pc = "retry_top" /\ r.i = failed + 1
        /\ \A p \in 1..Len(rTrace) :
              (rTrace[p].ev = "call" /\ rTrace[p].n >= 2) => rTrace[p - 1].ev = "sleep"
        /\ rOutcome.kind = "thrown" => Len(sleeps) = (IF r.attempts = 0 THEN 0 ELSE r.attempts - 1)
        /\ rOutcome.kind = "returned" => Len(sleeps) = Len(fails)
        /\ (/\ rOutcome.kind = "thrown"
            /\ r.attempts = NavAttempts
            /\ r.initialDelayMs = NavInitialDelayMs
            /\ r.backoffFactor = NavBackoffFactor)
           => [i \in 1..Len(sleeps) |-> sleeps[i].n] = <<1500, 3000>>

C10_Witness ==
    /\ pc = "retry_threw"
    /\ r.attempts = NavAttempts
    /\ r.initialDelayMs = NavInitialDelayMs
    /\ r.backoffFactor = NavBackoffFactor
    /\ r.onError = "logs"
    /\ Len(Only(rTrace, "sleep")) = 2

====
